---------------------------- MODULE Spec2Model ----------------------------
(***************************************************************************)
(* A model of termimg (src/src/main.rs): an image is shown as a child      *)
(* window of the focused X11 window at a terminal row/column.              *)
(*                                                                         *)
(* The X server is modelled by the resources it holds (graphics contexts,  *)
(* pixmaps, windows, the set of mapped windows).  A request of the         *)
(* connection either is issued (its effect is applied to the server state) *)
(* or fails with a connection error, in which case the `?` of the source   *)
(* returns the error from the enclosing function.                          *)
(***************************************************************************)
EXTENDS Integers, Sequences, FiniteSets, TLC

VARIABLES
    \* ---- struct ImageDisplay (main.rs 109-114) ----
    window,         \* Option<Window>: 0 is None, an id is Some(id)
    \* ---- the server side of the connection ----
    gcs,            \* graphics contexts allocated
    pixmaps,        \* pixmaps allocated
    painted,        \* pixmaps the image has been put into
    windows,        \* windows created: id -> [bg, parent, x, y]
    mapped,         \* windows that are mapped
    nextId,         \* the next id generate_id hands out
    \* ---- the control state of show_at / remove ----
    pc,             \* the statement the ImageDisplay method is at
    caller,         \* who called remove: "api" or "show_at"
    arg,            \* the (x, y) given to show_at
    gc_id, pixmap_id, win_id,   \* the locals of show_at (0: not yet bound)
    \* ---- history (not program state) ----
    log,            \* the requests of the current call, in order, with outcome
    lastOp,         \* the method that returned last
    lastRes,        \* its result: "ok", "err", "panic"
    prevWindow,     \* the handle at the entry of the current call
    nCalls,         \* calls made so far
    nFailed,        \* calls that returned an error so far
    nShown,         \* show_at calls that returned Ok so far
    directRemove,   \* remove() has been called from outside show_at
    \* ---- rowcol_to_pixels applied to drawn inputs (SpecPixels) ----
    penv,           \* what the environment reports: window geometry, terminal
                    \* grid, terminal pixels; and the build's overflow checks
    ppos,           \* the (row, col) argument
    out0,           \* the result at ppos (NotCalled: not called yet)
    outRow,         \* the result at (row + 1, col)
    outCol,         \* the result at (row, col + 1)
    \* ---- check_visual applied to drawn inputs (SpecVisual) ----
    vscreen,        \* the Screen: its allowed_depths
    vid,            \* the Visualid looked for
    vres,           \* what check_visual did (NotCalled: not called yet)
    \* ---- fn main (SpecMain) ----
    mpc,            \* the statement main is at
    opt,            \* Opt: the row and col of the command line
    proto,          \* the display-protocol calls main has made itself, in order
    xdo,            \* what the xdotool process did
    menv,           \* what rowcol_to_pixels was told: geometry, terminal sizes
    xy,             \* the (x, y) main got from rowcol_to_pixels
    mscreen,        \* conn.setup().roots[screen_num]
    layout,         \* the PixelLayout check_visual returned
    ended,          \* how the process ended: "running", "err", "exit", "panic"
    merr,           \* the chain of messages of the error main returned
    ticks,          \* events received by tick so far
    \* ---- the re-encoding of ImageDisplay::new on drawn inputs (SpecReencode) ----
    eimg,           \* the RgbImage: [width, height, raw], raw its bytes
    etarget,        \* the PixelLayout of the visual (pixel_layout)
    efmt,           \* the server's pixmap format and byte order (conn.setup())
    enc,            \* the re-encoded image (NotCalled: not yet)
    back            \* its pixels mapped back to the source layout, as bytes

dispVars == <<window, gcs, pixmaps, painted, windows, mapped, nextId, pc, caller,
              arg, gc_id, pixmap_id, win_id, log, lastOp, lastRes, prevWindow,
              nCalls, nFailed, nShown, directRemove>>

pixVars == <<penv, ppos, out0, outRow, outCol>>

visVars == <<vscreen, vid, vres>>

mainVars == <<mpc, opt, proto, xdo, menv, xy, mscreen, layout, ended, merr, ticks>>

encVars == <<eimg, etarget, efmt, enc, back>>

vars == <<dispVars, pixVars, visVars, mainVars, encVars>>

\* Bounds of the model
MaxCalls == 3
\* the positions show_at is called with
Positions == {<<0, 0>>, <<10, 60>>}
\* screen.root and the focused window (parent_window); ids below FirstId
Root == 1
ParentWindow == 2
FirstId == 3


-----------------------------------------------------------------------------
(* Machine arithmetic.  u16 and i16 operations overflow: a build with      *)
(* overflow checks (the default of a debug build) panics, a build without  *)
(* them (the default of a release build) wraps around.                     *)

MinI16 == -32768
MaxI16 == 32767
ModU16 == 65536

InI16(n) == n >= MinI16 /\ n <= MaxI16

\* `v as i16` for an integer v: the low 16 bits, read as two's complement
AsI16(v) ==
    LET m == v % ModU16 IN IF m > MaxI16 THEN m - ModU16 ELSE m

\* i16 / and u16 / truncate towards zero (b > 0)
TruncDiv(a, b) == IF a >= 0 THEN a \div b ELSE -((-a) \div b)

Val(v) == [kind |-> "ok", v |-> v]
Panicked(why) == [kind |-> "panic", why |-> why]
NotCalled == [kind |-> "none"]

\* u16 - u16
SubU16(a, b, build) ==
    IF a >= b THEN Val(a - b)
    ELSE IF build = "debug" THEN Panicked("attempt to subtract with overflow")
    ELSE Val((a - b) % ModU16)

\* i16 * i16
MulI16(a, b, build) ==
    IF InI16(a * b) THEN Val(a * b)
    ELSE IF build = "debug" THEN Panicked("attempt to multiply with overflow")
    ELSE Val(AsI16(a * b))

\* i16 + i16
AddI16(a, b, build) ==
    IF InI16(a + b) THEN Val(a + b)
    ELSE IF build = "debug" THEN Panicked("attempt to add with overflow")
    ELSE Val(AsI16(a + b))

-----------------------------------------------------------------------------
(* rowcol_to_pixels, main.rs 86-107, once the geometry reply and the       *)
(* terminal sizes have been obtained.                                      *)
(*   geom = <<width, height>> of the window                                *)
(*   grid = <<cols, rows>>    termion::terminal_size()                     *)
(*   pix  = <<xpixels, ypixels>>  termion::terminal_size_pixels()          *)
(*   pos  = <<row, col>>      the tuple parameter, as the function names it *)

\* line 100 / 101: ((dimension - pixels) as i16) / 2
CenterOffset(dim, pixels, build) ==
    LET d == SubU16(dim, pixels, build)
    IN  IF d.kind = "panic" THEN d ELSE Val(TruncDiv(AsI16(d.v), 2))

\* line 104 / 105: offset + position * pixels_per_cell
CellOffset(offset, p, per, build) ==
    LET m == MulI16(p, per, build)
    IN  IF m.kind = "panic" THEN m ELSE AddI16(offset, m.v, build)

\* a rowcol_to_pixels whose per-row size is taken from the other axis
RowcolToPixelsMixedAxes(geom, grid, pix, pos, build) ==
    LET width == geom[1]   height == geom[2]
        cols == grid[1]    rows == grid[2]
        xpixels == pix[1]  ypixels == pix[2]
        row == pos[1]      col == pos[2]
    IN  IF rows = 0 \/ cols = 0 THEN Panicked("attempt to divide by zero")
        ELSE
        LET pixels_per_row == AsI16(xpixels \div cols)
            pixels_per_col == AsI16(xpixels \div cols)
            yoffset == CenterOffset(height, ypixels, build)
            xoffset == CenterOffset(width, xpixels, build)
        IN  IF yoffset.kind = "panic" THEN yoffset
            ELSE IF xoffset.kind = "panic" THEN xoffset
            ELSE
            LET x == CellOffset(xoffset.v, col, pixels_per_col, build)
                y == CellOffset(yoffset.v, row, pixels_per_row, build)
            IN  IF x.kind = "panic" THEN x
                ELSE IF y.kind = "panic" THEN y
                ELSE [kind |-> "ok", x |-> x.v, y |-> y.v]

\* a rowcol_to_pixels in which a division by zero quietly yields 0
RowcolToPixelsZeroSwallowed(geom, grid, pix, pos, build) ==
    LET width == geom[1]   height == geom[2]
        cols == grid[1]    rows == grid[2]
        xpixels == pix[1]  ypixels == pix[2]
        row == pos[1]      col == pos[2]
        pixels_per_row == IF rows = 0 THEN 0 ELSE AsI16(ypixels \div rows)
        pixels_per_col == IF cols = 0 THEN 0 ELSE AsI16(xpixels \div cols)
        yoffset == CenterOffset(height, ypixels, build)
        xoffset == CenterOffset(width, xpixels, build)
    IN  IF yoffset.kind = "panic" THEN yoffset
        ELSE IF xoffset.kind = "panic" THEN xoffset
        ELSE
        LET x == CellOffset(xoffset.v, col, pixels_per_col, build)
            y == CellOffset(yoffset.v, row, pixels_per_row, build)
        IN  IF x.kind = "panic" THEN x
            ELSE IF y.kind = "panic" THEN y
            ELSE [kind |-> "ok", x |-> x.v, y |-> y.v]

\* lines 95-106; u16 / 0 panics in every build (lines 98, 99)
RowcolToPixels(geom, grid, pix, pos, build) ==
    LET width == geom[1]   height == geom[2]
        cols == grid[1]    rows == grid[2]
        xpixels == pix[1]  ypixels == pix[2]
        row == pos[1]      col == pos[2]
    IN  IF rows = 0 \/ cols = 0 THEN Panicked("attempt to divide by zero")
        ELSE
        LET pixels_per_row == AsI16(ypixels \div rows)
            pixels_per_col == AsI16(xpixels \div cols)
            yoffset == CenterOffset(height, ypixels, build)
            xoffset == CenterOffset(width, xpixels, build)
        IN  IF yoffset.kind = "panic" THEN yoffset
            ELSE IF xoffset.kind = "panic" THEN xoffset
            ELSE
            LET x == CellOffset(xoffset.v, col, pixels_per_col, build)
                y == CellOffset(yoffset.v, row, pixels_per_row, build)
            IN  IF x.kind = "panic" THEN x
                ELSE IF y.kind = "panic" THEN y
                ELSE [kind |-> "ok", x |-> x.v, y |-> y.v]

-----------------------------------------------------------------------------
(* rowcol_to_pixels applied to inputs drawn from bounded sets              *)

Builds == {"debug", "release"}
PixGeoms == {<<800, 600>>, <<640, 480>>, <<100, 50>>, <<40000, 40000>>}
PixGrids == {<<80, 24>>, <<1, 1>>, <<7, 3>>, <<0, 24>>, <<80, 0>>}
PixSizes == {<<800, 480>>, <<801, 481>>, <<40000, 0>>, <<0, 40000>>}
PixCoords == {MinI16, -3, -1, 0, 1, 2, 45, 1635, 3275, MaxI16 - 1, MaxI16}
PixPositions == {<<r, 0>> : r \in PixCoords} \cup {<<0, c>> : c \in PixCoords}
                  \cup {<<2, 1>>, <<-3, 45>>}

PixIdle ==
    /\ penv = [geom |-> <<0, 0>>, grid |-> <<1, 1>>, pix |-> <<0, 0>>,
               build |-> "debug"]
    /\ ppos = <<0, 0>>
    /\ out0 = NotCalled /\ outRow = NotCalled /\ outCol = NotCalled

PixInit ==
    /\ penv \in [geom : PixGeoms, grid : PixGrids, pix : PixSizes, build : Builds]
    /\ ppos \in PixPositions
    /\ out0 = NotCalled /\ outRow = NotCalled /\ outCol = NotCalled

PixCall(pos) ==
    RowcolToPixels(penv.geom, penv.grid, penv.pix, pos, penv.build)

ApplyAt ==
    /\ out0 = NotCalled
    /\ out0' = PixCall(ppos)
    /\ UNCHANGED <<penv, ppos, outRow, outCol>>

ApplyAtNextRow ==
    /\ outRow = NotCalled
    /\ ppos[1] < MaxI16
    /\ outRow' = PixCall(<<ppos[1] + 1, ppos[2]>>)
    /\ UNCHANGED <<penv, ppos, out0, outCol>>

ApplyAtNextCol ==
    /\ outCol = NotCalled
    /\ ppos[2] < MaxI16
    /\ outCol' = PixCall(<<ppos[1], ppos[2] + 1>>)
    /\ UNCHANGED <<penv, ppos, out0, outRow>>


-----------------------------------------------------------------------------
(* x11rb::image::ColorComponent and PixelLayout, as check_visual (line 63) *)
(* and ImageDisplay::new (lines 129-133) use them.  A mask is a u32, held  *)
(* as the set of the positions (0..31) of its bits that are set.           *)

\* u32::count_ones
CountOnes(m) == Cardinality(m)

\* u32::trailing_zeros
TrailingZeros(m) ==
    IF m = {} THEN 32 ELSE CHOOSE b \in m : \A c \in m : b <= c

Failed(why) == [kind |-> "err", why |-> why]

\* ColorComponent::new(width, shift)
ColorComponentNew(width, shift) ==
    IF width > 16 \/ shift >= 32 \/ shift + width > 32
      THEN Failed("InvalidValue")
      ELSE [kind |-> "ok", width |-> width, shift |-> shift]

\* ColorComponent::mask
ComponentMask(c) == c.shift .. (c.shift + c.width - 1)

\* ColorComponent::from_mask
FromMask(mask) ==
    LET c == ColorComponentNew(CountOnes(mask), TrailingZeros(mask))
    IN  IF c.kind = "err" THEN c
        ELSE IF mask # ComponentMask(c) THEN Failed("InvalidValue")
        ELSE c

TrueOrDirect == {"TrueColor", "DirectColor"}

\* PixelLayout::from_visual_type
FromVisualType(visual) ==
    IF visual.class \notin TrueOrDirect THEN Failed("InvalidValue")
    ELSE
    LET red == FromMask(visual.red_mask)
        green == FromMask(visual.green_mask)
        blue == FromMask(visual.blue_mask)
    IN  IF red.kind = "err" THEN red
        ELSE IF green.kind = "err" THEN green
        ELSE IF blue.kind = "err" THEN blue
        ELSE [kind |-> "ok",
              red |-> [width |-> red.width, shift |-> red.shift],
              green |-> [width |-> green.width, shift |-> green.shift],
              blue |-> [width |-> blue.width, shift |-> blue.shift]]

\* PixelLayout::depth
LayoutDepth(l) == l.red.width + l.green.width + l.blue.width

-----------------------------------------------------------------------------
(* check_visual, main.rs 35-67 *)

\* lines 41: depth.visuals.iter().find(|v| v.visual_id == id)
FindVisual(visuals, id) ==
    LET hits == {i \in 1..Len(visuals) : visuals[i].visual_id = id}
    IN  IF hits = {} THEN 0 ELSE CHOOSE i \in hits : \A j \in hits : i <= j

\* lines 37-44: the first depth group that lists the visual (0: none does)
FindDepth(allowed_depths, id) ==
    LET hits == {d \in 1..Len(allowed_depths) :
                    FindVisual(allowed_depths[d].visuals, id) # 0}
    IN  IF hits = {} THEN 0 ELSE CHOOSE d \in hits : \A e \in hits : d <= e

Exited(code) == [kind |-> "exit", code |-> code]

\* a check_visual that accepts only one of the two classes
CheckVisualTrueColorRefused(allowed_depths, id) ==
    LET d == FindDepth(allowed_depths, id) IN
    IF d = 0 THEN Exited(1)
    ELSE
    LET depth == allowed_depths[d].depth
        visual_type ==
            allowed_depths[d].visuals[FindVisual(allowed_depths[d].visuals, id)]
    IN  IF visual_type.class # "DirectColor" THEN Exited(1)
        ELSE
        LET result == FromVisualType(visual_type)
        IN  IF result.kind = "err"
              THEN Failed("The server sent a malformed visual type")
            ELSE IF LayoutDepth(result) # depth
              THEN Panicked("assertion failed: left == right")
            ELSE result

\* a check_visual that leaves the class to from_visual_type
CheckVisualNoClassCheck(allowed_depths, id) ==
    LET d == FindDepth(allowed_depths, id) IN
    IF d = 0 THEN Exited(1)
    ELSE
    LET depth == allowed_depths[d].depth
        visual_type ==
            allowed_depths[d].visuals[FindVisual(allowed_depths[d].visuals, id)]
        result == FromVisualType(visual_type)
    IN  IF result.kind = "err"
          THEN Failed("The server sent a malformed visual type")
        ELSE IF LayoutDepth(result) # depth
          THEN Panicked("assertion failed: left == right")
        ELSE result

CheckVisual(allowed_depths, id) ==
    LET d == FindDepth(allowed_depths, id) IN
    \* lines 47-50: std::process::exit(1)
    IF d = 0 THEN Exited(1)
    ELSE
    LET depth == allowed_depths[d].depth
        visual_type ==
            allowed_depths[d].visuals[FindVisual(allowed_depths[d].visuals, id)]
    IN  \* lines 53-62: std::process::exit(1)
        IF visual_type.class \notin TrueOrDirect THEN Exited(1)
        ELSE
        LET result == FromVisualType(visual_type)
        IN  \* line 64: .with_context(..)?
            IF result.kind = "err"
              THEN Failed("The server sent a malformed visual type")
            \* line 65: assert_eq!(result.depth(), depth)
            ELSE IF LayoutDepth(result) # depth
              THEN Panicked("assertion failed: left == right")
            ELSE result

-----------------------------------------------------------------------------
(* check_visual applied to screens drawn from bounded sets                 *)

VisualClasses == {"TrueColor", "DirectColor", "PseudoColor", "StaticGray"}
\* <<depth, <<red_mask, green_mask, blue_mask>>>>: the visuals servers
\* advertise, and three a malformed reply could hold
DepthMasks ==
    { <<24, <<16..23, 8..15, 0..7>>>>,      \* ff0000 / 00ff00 / 0000ff
      <<24, <<0..7, 8..15, 16..23>>>>,      \* the same, blue high
      <<16, <<11..15, 5..10, 0..4>>>>,      \* 5 / 6 / 5 bits
      <<30, <<20..29, 10..19, 0..9>>>>,     \* 10 / 10 / 10 bits
      <<32, <<16..23, 8..15, 0..7>>>>,      \* 8 / 8 / 8 and 8 bits of alpha
      <<32, <<12..31, 6..11, 0..5>>>>,      \* 20 / 6 / 6 bits
      <<24, <<(16..23) \cup (0..7), 8..15, {}>>>>,  \* red in two pieces
      <<8, <<{}, {}, {}>>>>,                \* no masks (a colormap visual)
      <<24, <<{}, {}, {}>>>> }
VisualIds == {33, 34}
LookedForIds == VisualIds \cup {35}

Visualtype(id, class, masks) ==
    [visual_id |-> id, class |-> class,
     red_mask |-> masks[1], green_mask |-> masks[2], blue_mask |-> masks[3]]

\* a depth group that lists one visual
DepthGroup(id, class, dm) ==
    [depth |-> dm[1], visuals |-> <<Visualtype(id, class, dm[2])>>]

\* a screen: a first depth group with no or one visual, a second with one
DepthGroups1 ==
    {[depth |-> 24, visuals |-> <<>>]} \cup
    {DepthGroup(33, c, dm) : c \in {"TrueColor", "PseudoColor"}, dm \in DepthMasks}
DepthGroups2 ==
    {DepthGroup(id, c, dm) : id \in VisualIds, c \in VisualClasses, dm \in DepthMasks}
Screens == {<<g1, g2>> : g1 \in DepthGroups1, g2 \in DepthGroups2}

VisIdle ==
    /\ vscreen = <<>>
    /\ vid = 0
    /\ vres = NotCalled

VisInit ==
    /\ vscreen \in Screens
    /\ vid \in LookedForIds
    /\ vres = NotCalled

ApplyCheckVisual ==
    /\ vres = NotCalled
    /\ vres' = CheckVisual(vscreen, vid)
    /\ UNCHANGED <<vscreen, vid>>

-----------------------------------------------------------------------------
(* The re-encoding of ImageDisplay::new, main.rs 124-146: the raw bytes of *)
(* the RgbImage become an x11rb Image (24 bits per pixel, most significant *)
(* byte first, rows padded to 8 bits), which reencode converts from        *)
(* img_layout to the layout of the visual, in the server's native format.  *)

Component(width, shift) == [width |-> width, shift |-> shift]

\* lines 129-133: img_layout
ImgLayout ==
    [red |-> Component(8, 16), green |-> Component(8, 8), blue |-> Component(8, 0)]

\* ColorComponent::decode: the component of the pixel, widened to 16 bits by
\* repeating its high-order bits below it
RECURSIVE Widen(_, _)
Widen(value, width) ==
    IF width >= 16 THEN value
    ELSE Widen(value + (value \div (2 ^ width)), 2 * width)

ComponentDecode(c, pixel) ==
    LET value == (pixel \div (2 ^ c.shift)) % (2 ^ c.width)
    IN  Widen(value * 2 ^ (16 - c.width), c.width)

\* a ColorComponent::encode that keeps the low-order bits of the intensity
ComponentEncodeLowBits(c, intensity) ==
    (intensity % (2 ^ c.width)) * 2 ^ c.shift

\* ColorComponent::encode: the high-order bits of the intensity, in place
ComponentEncode(c, intensity) ==
    (intensity \div (2 ^ (16 - c.width))) * 2 ^ c.shift

\* PixelLayout::decode and PixelLayout::encode
LayoutDecode(l, pixel) ==
    <<ComponentDecode(l.red, pixel), ComponentDecode(l.green, pixel),
      ComponentDecode(l.blue, pixel)>>

LayoutEncode(l, rgb) ==
    ComponentEncode(l.red, rgb[1]) + ComponentEncode(l.green, rgb[2])
        + ComponentEncode(l.blue, rgb[3])

\* Image::get_pixel of the image of lines 135-143, pixel i (from 0) in
\* row-major order: three bytes, most significant first
SourcePixels(raw) ==
    [i \in 1..(Len(raw) \div 3) |->
        raw[3 * i - 2] * 65536 + raw[3 * i - 1] * 256 + raw[3 * i]]

\* the bytes of one pixel in a format
PixelBytes(pixel, fmt) ==
    LET n == fmt.bits_per_pixel \div 8
        msb == [k \in 1..n |-> (pixel \div (256 ^ (n - k))) % 256]
    IN  IF fmt.byte_order = "MSBFirst" THEN msb
        ELSE [k \in 1..n |-> msb[n + 1 - k]]

RECURSIVE Flatten(_)
Flatten(seqs) == IF seqs = <<>> THEN <<>> ELSE Head(seqs) \o Flatten(Tail(seqs))

\* the bytes of an image in a format: row by row, each row padded with zero
\* bytes to a multiple of scanline_pad bits
ImageBytes(width, height, pixels, fmt) ==
    LET padBytes == fmt.scanline_pad \div 8
        rowBytes == width * (fmt.bits_per_pixel \div 8)
        stride == ((rowBytes + padBytes - 1) \div padBytes) * padBytes
        Row(y) == Flatten([x \in 1..width |->
                              PixelBytes(pixels[(y - 1) * width + x], fmt)])
                    \o [k \in 1..(stride - rowBytes) |-> 0]
    IN  Flatten([y \in 1..height |-> Row(y)])

\* lines 144-146: img.reencode(img_layout, pixel_layout, conn.setup())?
\* fmt is the server's format for the depth, or NoFormat when it has none
NoFormat == [bits_per_pixel |-> 0, scanline_pad |-> 0, byte_order |-> "none"]

Reencode(img, own, output, fmt) ==
    IF fmt = NoFormat THEN Failed("InvalidValue")
    ELSE
    LET src == SourcePixels(img.raw)
        pixels == IF own = output THEN src
                  ELSE [i \in 1..Len(src) |->
                           LayoutEncode(output, LayoutDecode(own, src[i]))]
    IN  [kind |-> "ok", width |-> img.width, height |-> img.height,
         pixels |-> pixels,
         bytes |-> ImageBytes(img.width, img.height, pixels, fmt)]

\* the pixels of an image in layout `from`, as R, G, B bytes per pixel: the
\* components extracted with `from` and reassembled with img_layout
MapBack(pixels, from) ==
    Flatten([i \in 1..Len(pixels) |->
               PixelBytes(LayoutEncode(ImgLayout, LayoutDecode(from, pixels[i])),
                          [bits_per_pixel |-> 24, byte_order |-> "MSBFirst"])])

-----------------------------------------------------------------------------
(* the re-encoding applied to images, layouts and formats from bounded sets *)

MaxPixels == 2
SamplePixels ==
    {<<255, 0, 0>>, <<0, 255, 0>>, <<1, 2, 3>>, <<127, 128, 129>>, <<255, 255, 255>>}
\* images of one row or one column, of up to MaxPixels pixels
RawImages ==
    UNION { {[width |-> w, height |-> n \div w, raw |-> Flatten(f)] :
                w \in {1, n}, f \in [1..n -> SamplePixels]} : n \in 1..MaxPixels }
TargetLayouts ==
    { ImgLayout,
      [red |-> Component(8, 0), green |-> Component(8, 8), blue |-> Component(8, 16)],
      [red |-> Component(5, 11), green |-> Component(6, 5), blue |-> Component(5, 0)],
      [red |-> Component(10, 20), green |-> Component(10, 10), blue |-> Component(10, 0)],
      [red |-> Component(8, 8), green |-> Component(9, 16), blue |-> Component(8, 0)] }
Formats ==
    [bits_per_pixel : {24, 32}, scanline_pad : {8, 32},
     byte_order : {"MSBFirst", "LSBFirst"}] \cup {NoFormat}

EncIdle ==
    /\ eimg = [width |-> 0, height |-> 0, raw |-> <<>>]
    /\ etarget = ImgLayout
    /\ efmt = NoFormat
    /\ enc = NotCalled
    /\ back = NotCalled

EncInit ==
    /\ eimg \in RawImages
    /\ etarget \in TargetLayouts
    /\ efmt \in Formats
    /\ enc = NotCalled
    /\ back = NotCalled

ApplyReencode ==
    /\ enc = NotCalled
    /\ enc' = Reencode(eimg, ImgLayout, etarget, efmt)
    /\ UNCHANGED <<eimg, etarget, efmt, back>>

ApplyMapBack ==
    /\ enc.kind = "ok"
    /\ back = NotCalled
    /\ back' = Val(MapBack(enc.pixels, etarget))
    /\ UNCHANGED <<eimg, etarget, efmt, enc>>

-----------------------------------------------------------------------------
(* ImageDisplay::is_shown *)
is_shown == window # 0

\* the arguments a request is made with, from the locals of the method
\* (the image's size and the root depth are named, not valued)
NoArgs == [none |-> TRUE]

ReqArgs(req) ==
    CASE req = "create_gc" ->
           \* lines 182-186
           [cid |-> gc_id, drawable |-> Root, graphics_exposures |-> 0]
      [] req = "create_pixmap" ->
           \* lines 189-195
           [depth |-> "root_depth", pid |-> pixmap_id, drawable |-> Root,
            width |-> "image.width", height |-> "image.height"]
      [] req = "put_image" ->
           \* line 196
           [drawable |-> pixmap_id, gc |-> gc_id, dst |-> <<0, 0>>]
      [] req = "create_window" ->
           \* lines 199-211
           [depth |-> "root_depth", wid |-> win_id, parent |-> Root,
            at |-> <<0, 0>>, width |-> "image.width", height |-> "image.height",
            border_width |-> 0, class |-> "INPUT_OUTPUT", visual |-> 0,
            background_pixmap |-> pixmap_id]
      [] req = "reparent_window" ->
           \* line 212
           [window |-> win_id, parent |-> ParentWindow, at |-> arg]
      [] req = "free_pixmap" -> [pixmap |-> pixmap_id]
      [] req = "free_gc" -> [gc |-> gc_id]
      [] req = "map_window" -> [window |-> win_id]
      [] req = "unmap_window" -> [window |-> window]
      [] OTHER -> NoArgs

Logged(req, ok) == Append(log, [req |-> req, ok |-> ok, args |-> ReqArgs(req)])

(* A `?` on a failed request: the method returns Err to its caller.        *)
ReturnErr(op) ==
    /\ pc' = "idle"
    /\ lastOp' = op
    /\ lastRes' = "err"
    /\ nFailed' = nFailed + 1
    /\ UNCHANGED nShown

ReturnOk(op) ==
    /\ pc' = "idle"
    /\ lastOp' = op
    /\ lastRes' = "ok"
    /\ nShown' = IF op = "show_at" THEN nShown + 1 ELSE nShown
    /\ UNCHANGED nFailed

(* a failed assert!: the thread panics and the process ends                *)
Panic(op) ==
    /\ pc' = "panicked"
    /\ lastOp' = op
    /\ lastRes' = "panic"
    /\ UNCHANGED <<nFailed, nShown>>

-----------------------------------------------------------------------------
(* ImageDisplay::remove, main.rs 159-167 *)

\* a remove that leaves the handle as it is
RemoveHandleKept == window

\* what remove does to the handle once unmap_window has been issued
RemoveHandle == 0

\* a remove without its assertion: it goes on to the unmap request
RemoveAssertUnchecked ==
    /\ pc = "rm_assert"
    /\ pc' = "rm_unmap"
    /\ UNCHANGED <<lastOp, lastRes, nFailed, nShown>>
    /\ UNCHANGED <<window, gcs, pixmaps, painted, windows, mapped, nextId, caller,
                   arg, gc_id, pixmap_id, win_id, log, prevWindow, nCalls,
                   directRemove>>

\* line 160: assert!(self.is_shown())
RemoveAssert ==
    /\ pc = "rm_assert"
    /\ IF is_shown
         THEN /\ pc' = "rm_unmap"
              /\ UNCHANGED <<lastOp, lastRes, nFailed, nShown>>
         ELSE Panic("remove")
    /\ UNCHANGED <<window, gcs, pixmaps, painted, windows, mapped, nextId, caller,
                   arg, gc_id, pixmap_id, win_id, log, prevWindow, nCalls,
                   directRemove>>

\* a remove that clears the handle before it issues the unmap request
RemoveUnmapClearsFirst ==
    /\ pc = "rm_unmap"
    /\ \E ok \in BOOLEAN :
         /\ log' = Logged("unmap_window", ok)
         /\ window' = RemoveHandle
         /\ IF ok
              THEN /\ mapped' = mapped \ {window}
                   /\ IF caller = "show_at"
                        THEN /\ pc' = "sa_assert"
                             /\ UNCHANGED <<lastOp, lastRes, nFailed, nShown>>
                        ELSE ReturnOk("remove")
              ELSE /\ UNCHANGED mapped
                   /\ ReturnErr(IF caller = "show_at" THEN "show_at" ELSE "remove")
    /\ UNCHANGED <<gcs, pixmaps, painted, windows, nextId, caller, arg, gc_id,
                   pixmap_id, win_id, prevWindow, nCalls, directRemove>>

\* lines 161-166: conn.unmap_window(window)?; self.window = None; Ok(())
RemoveUnmap ==
    /\ pc = "rm_unmap"
    /\ \E ok \in BOOLEAN :
         /\ log' = Logged("unmap_window", ok)
         /\ IF ok
              THEN /\ mapped' = mapped \ {window}
                   /\ window' = RemoveHandle
                   /\ IF caller = "show_at"
                        THEN /\ pc' = "sa_assert"
                             /\ UNCHANGED <<lastOp, lastRes, nFailed, nShown>>
                        ELSE ReturnOk("remove")
              ELSE /\ UNCHANGED <<mapped, window>>
                   \* show_at line 176: self.remove(conn)? returns the error
                   /\ ReturnErr(IF caller = "show_at" THEN "show_at" ELSE "remove")
    /\ UNCHANGED <<gcs, pixmaps, painted, windows, nextId, caller, arg, gc_id,
                   pixmap_id, win_id, prevWindow, nCalls, directRemove>>

-----------------------------------------------------------------------------
(* ImageDisplay::show_at, main.rs 169-228 *)

\* lines 175-177: if self.is_shown() { self.remove(conn)?; }
ShowAtNeedsRemove == is_shown

ShowAtEntry ==
    /\ pc = "sa_entry"
    /\ pc' = IF ShowAtNeedsRemove THEN "rm_assert" ELSE "sa_assert"
    /\ UNCHANGED <<window, gcs, pixmaps, painted, windows, mapped, nextId, caller,
                   arg, gc_id, pixmap_id, win_id, log, lastOp, lastRes, prevWindow,
                   nCalls, nFailed, nShown, directRemove>>

\* line 178: assert!(!self.is_shown())
ShowAtAssert ==
    /\ pc = "sa_assert"
    /\ IF ~is_shown
         THEN /\ pc' = "sa_gen_gc"
              /\ UNCHANGED <<lastOp, lastRes, nFailed, nShown>>
         ELSE Panic("show_at")
    /\ UNCHANGED <<window, gcs, pixmaps, painted, windows, mapped, nextId, caller,
                   arg, gc_id, pixmap_id, win_id, log, prevWindow, nCalls,
                   directRemove>>

\* lines 181, 188, 198: conn.generate_id()?
GenerateId(at, next, which) ==
    /\ pc = at
    /\ \E ok \in BOOLEAN :
         /\ log' = Logged("generate_id", ok)
         /\ IF ok
              THEN /\ gc_id' = IF which = "gc" THEN nextId ELSE gc_id
                   /\ pixmap_id' = IF which = "pixmap" THEN nextId ELSE pixmap_id
                   /\ win_id' = IF which = "win" THEN nextId ELSE win_id
                   /\ nextId' = nextId + 1
                   /\ pc' = next
                   /\ UNCHANGED <<lastOp, lastRes, nFailed, nShown>>
              ELSE /\ UNCHANGED <<gc_id, pixmap_id, win_id, nextId>>
                   /\ ReturnErr("show_at")
    /\ UNCHANGED <<window, gcs, pixmaps, painted, windows, mapped, caller, arg,
                   prevWindow, nCalls, directRemove>>

ShowAtGenGc == GenerateId("sa_gen_gc", "sa_create_gc", "gc")
ShowAtGenPixmap == GenerateId("sa_gen_pixmap", "sa_create_pixmap", "pixmap")
ShowAtGenWin == GenerateId("sa_gen_win", "sa_create_window", "win")

\* a request whose failure is ignored: show_at goes on to the next statement
RequestIgnoringFailure(at, next, req, effect) ==
    /\ pc = at
    /\ \E ok \in BOOLEAN :
         /\ log' = Logged(req, ok)
         /\ IF ok THEN effect
                  ELSE UNCHANGED <<gcs, pixmaps, painted, windows, mapped>>
         /\ pc' = next
         /\ UNCHANGED <<lastOp, lastRes, nFailed, nShown>>
    /\ UNCHANGED <<window, nextId, caller, arg, gc_id, pixmap_id, win_id,
                   prevWindow, nCalls, directRemove>>

\* A request of show_at: issued (the server state changes as `effect` says and
\* show_at goes on to `next`) or failed (`?` returns the error).
\* `effect` constrains gcs', pixmaps', painted', windows', mapped'.
Request(at, next, req, effect) ==
    /\ pc = at
    /\ \E ok \in BOOLEAN :
         /\ log' = Logged(req, ok)
         /\ IF ok
              THEN /\ effect
                   /\ pc' = next
                   /\ UNCHANGED <<lastOp, lastRes, nFailed, nShown>>
              ELSE /\ UNCHANGED <<gcs, pixmaps, painted, windows, mapped>>
                   /\ ReturnErr("show_at")
    /\ UNCHANGED <<window, nextId, caller, arg, gc_id, pixmap_id, win_id,
                   prevWindow, nCalls, directRemove>>

\* lines 182-186: conn.create_gc(gc_id, screen.root, graphics_exposures(0))?
ShowAtCreateGc ==
    Request("sa_create_gc", "sa_gen_pixmap", "create_gc",
            /\ gcs' = gcs \cup {gc_id}
            /\ UNCHANGED <<pixmaps, painted, windows, mapped>>)

\* lines 189-195: conn.create_pixmap(root_depth, pixmap_id, root, w, h)?
ShowAtCreatePixmap ==
    Request("sa_create_pixmap", "sa_put", "create_pixmap",
            /\ pixmaps' = pixmaps \cup {pixmap_id}
            /\ UNCHANGED <<gcs, painted, windows, mapped>>)

\* line 196: self.image.put(conn, pixmap_id, gc_id, 0, 0)?
ShowAtPut ==
    Request("sa_put", "sa_gen_win", "put_image",
            /\ painted' = painted \cup {pixmap_id}
            /\ UNCHANGED <<gcs, pixmaps, windows, mapped>>)

\* a show_at that maps the window as soon as it is created (before reparenting)
ShowAtCreateWindowMapped ==
    Request("sa_create_window", "sa_reparent", "create_window",
            /\ windows' = windows \cup
                 {[id |-> win_id, bg |-> pixmap_id, parent |-> Root, at |-> <<0, 0>>]}
            /\ mapped' = mapped \cup {win_id}
            /\ UNCHANGED <<gcs, pixmaps, painted>>)

\* a show_at that maps the window right after creating it, leaving out the
\* reparenting and the release of the pixmap and the graphics context
ShowAtCreateWindowThenMap ==
    Request("sa_create_window", "sa_map", "create_window",
            /\ windows' = windows \cup
                 {[id |-> win_id, bg |-> pixmap_id, parent |-> Root, at |-> <<0, 0>>]}
            /\ UNCHANGED <<gcs, pixmaps, painted, mapped>>)

\* lines 199-211: conn.create_window(.., win_id, screen.root, 0, 0, w, h, ..,
\*                                   background_pixmap(pixmap_id))?
ShowAtCreateWindow ==
    Request("sa_create_window", "sa_reparent", "create_window",
            /\ windows' = windows \cup
                 {[id |-> win_id, bg |-> pixmap_id, parent |-> Root, at |-> <<0, 0>>]}
            /\ UNCHANGED <<gcs, pixmaps, painted, mapped>>)

\* line 212: conn.reparent_window(win_id, self.parent_window, x, y)?
ShowAtReparent ==
    Request("sa_reparent", "sa_free_pixmap", "reparent_window",
            /\ windows' = {IF w.id = win_id
                             THEN [w EXCEPT !.parent = ParentWindow, !.at = arg]
                             ELSE w : w \in windows}
            /\ UNCHANGED <<gcs, pixmaps, painted, mapped>>)

\* line 215: conn.free_pixmap(pixmap_id)?
ShowAtFreePixmap ==
    Request("sa_free_pixmap", "sa_free_gc", "free_pixmap",
            /\ pixmaps' = pixmaps \ {pixmap_id}
            /\ UNCHANGED <<gcs, painted, windows, mapped>>)

\* line 216: conn.free_gc(gc_id)?
ShowAtFreeGc ==
    Request("sa_free_gc", "sa_map", "free_gc",
            /\ gcs' = gcs \ {gc_id}
            /\ UNCHANGED <<pixmaps, painted, windows, mapped>>)

\* line 219: conn.map_window(win_id)?
ShowAtMap ==
    Request("sa_map", "sa_flush", "map_window",
            /\ mapped' = mapped \cup {win_id}
            /\ UNCHANGED <<gcs, pixmaps, painted, windows>>)

\* line 222: conn.flush()?
ShowAtFlush ==
    Request("sa_flush", "sa_set", "flush",
            UNCHANGED <<gcs, pixmaps, painted, windows, mapped>>)

\* a show_at that records the wrong id as the handle
ShowAtSetPixmap ==
    /\ pc = "sa_set"
    /\ window' = pixmap_id
    /\ ReturnOk("show_at")
    /\ UNCHANGED <<gcs, pixmaps, painted, windows, mapped, nextId, caller, arg,
                   gc_id, pixmap_id, win_id, log, prevWindow, nCalls, directRemove>>

\* lines 225-227: self.window = Some(win_id); Ok(())
ShowAtSet ==
    /\ pc = "sa_set"
    /\ window' = win_id
    /\ ReturnOk("show_at")
    /\ UNCHANGED <<gcs, pixmaps, painted, windows, mapped, nextId, caller, arg,
                   gc_id, pixmap_id, win_id, log, prevWindow, nCalls, directRemove>>

\* the statements of show_at after the remove step
ShowAtBody ==
    \/ ShowAtEntry \/ ShowAtAssert
    \/ ShowAtGenGc \/ ShowAtCreateGc
    \/ ShowAtGenPixmap \/ ShowAtCreatePixmap \/ ShowAtPut
    \/ ShowAtGenWin \/ ShowAtCreateWindow \/ ShowAtReparent
    \/ ShowAtFreePixmap \/ ShowAtFreeGc
    \/ ShowAtMap \/ ShowAtFlush \/ ShowAtSet

ShowAtStep ==
    \/ ShowAtBody
    \/ RemoveAssert \/ RemoveUnmap


-----------------------------------------------------------------------------
(* The callers of the ImageDisplay methods: any sequence of show_at and    *)
(* remove calls on one entity (exclusive access: one call at a time).      *)

EnterCall(p, first, who) ==
    /\ pc' = first
    /\ caller' = who
    /\ arg' = p
    /\ gc_id' = 0 /\ pixmap_id' = 0 /\ win_id' = 0
    /\ log' = <<>>
    /\ prevWindow' = window
    /\ nCalls' = nCalls + 1
    /\ UNCHANGED <<window, gcs, pixmaps, painted, windows, mapped, nextId,
                   lastOp, lastRes, nFailed, nShown>>

CallShowAt ==
    /\ pc = "idle"
    /\ nCalls < MaxCalls
    /\ \E p \in Positions : EnterCall(p, "sa_entry", "show_at")
    /\ UNCHANGED directRemove

CallRemove ==
    /\ pc = "idle"
    /\ nCalls < MaxCalls
    /\ EnterCall(arg, "rm_assert", "api")
    /\ directRemove' = TRUE

\* ImageDisplay::new, lines 148-152: window: None; nothing requested yet
DispInit ==
    /\ window = 0
    /\ gcs = {} /\ pixmaps = {} /\ painted = {} /\ windows = {} /\ mapped = {}
    /\ nextId = FirstId
    /\ pc = "idle"
    /\ caller = "api"
    /\ arg = <<0, 0>>
    /\ gc_id = 0 /\ pixmap_id = 0 /\ win_id = 0
    /\ log = <<>>
    /\ lastOp = "none" /\ lastRes = "none"
    /\ prevWindow = 0
    /\ nCalls = 0 /\ nFailed = 0 /\ nShown = 0
    /\ directRemove = FALSE

-----------------------------------------------------------------------------
(* get_current_window_id, main.rs 69-84.  xdo is what the process did:     *)
(*   [spawned, success, stdout, stderr, stderr_utf8]                       *)

\* line 78: stdout.trim().parse::<Window>()
ParseWindow(stdout) ==
    IF stdout = "2\n" THEN Val(2) ELSE Failed("invalid digit found in string")

\* the error chain is outermost context first
GetCurrentWindowId(x) ==
    IF ~x.spawned
      THEN [kind |-> "err", chain |-> <<"Failed to run xdotool", "No such file">>]
    ELSE IF x.success
      THEN LET w == ParseWindow(x.stdout)
           IN  IF w.kind = "ok" THEN w
               ELSE [kind |-> "err",
                     chain |-> <<"Couldn't parse window ID number from xdotool",
                                 w.why>>]
    \* line 81: String::from_utf8(output.stderr)? leaves before the context
    ELSE IF ~x.stderr_utf8
      THEN [kind |-> "err", chain |-> <<"invalid utf-8 sequence">>]
    ELSE [kind |-> "err",
          chain |-> <<"xdotool exited with non-zero status", x.stderr>>]

XdoOutcomes ==
    { [spawned |-> FALSE, success |-> FALSE, stdout |-> "", stderr |-> "",
       stderr_utf8 |-> TRUE],
      [spawned |-> TRUE, success |-> TRUE, stdout |-> "2\n", stderr |-> "",
       stderr_utf8 |-> TRUE],
      [spawned |-> TRUE, success |-> TRUE, stdout |-> "", stderr |-> "",
       stderr_utf8 |-> TRUE],
      [spawned |-> TRUE, success |-> FALSE, stdout |-> "", stderr |-> "no window",
       stderr_utf8 |-> TRUE],
      [spawned |-> TRUE, success |-> FALSE, stdout |-> "2\n",
       stderr |-> "Can't open display", stderr_utf8 |-> TRUE],
      [spawned |-> TRUE, success |-> FALSE, stdout |-> "", stderr |-> "?",
       stderr_utf8 |-> FALSE] }

NoXdo == [spawned |-> FALSE, success |-> FALSE, stdout |-> "", stderr |-> "",
          stderr_utf8 |-> TRUE]

-----------------------------------------------------------------------------
(* fn main, main.rs 238-262 *)

MaxTicks == 2
MainOpts == [row : {0, 1}, col : {0, 2}]
MainGeoms == {<<800, 600>>}
MainGrids == {<<80, 24>>, <<80, 0>>, <<0, 24>>}
MainSizes == {<<800, 480>>, <<801, 481>>}
\* [allowed_depths, root_visual]
MainScreens ==
    { [allowed_depths |-> <<[depth |-> 24, visuals |-> <<>>], DepthGroup(33, c, dm)>>,
       root_visual |-> id] :
        c \in {"TrueColor", "PseudoColor"},
        dm \in { <<24, <<16..23, 8..15, 0..7>>>>, <<32, <<16..23, 8..15, 0..7>>>>,
                 <<24, <<{}, {}, {}>>>> },
        id \in {33, 35} }

NoEnv == [geom |-> <<0, 0>>, grid |-> <<1, 1>>, pix |-> <<0, 0>>, build |-> "debug"]
NoScreen == [allowed_depths |-> <<>>, root_visual |-> 0]
NoXY == <<0, 0>>

MainIdle ==
    /\ mpc = "none"
    /\ opt = [row |-> 0, col |-> 0]
    /\ proto = <<>>
    /\ xdo = NoXdo
    /\ menv = NoEnv
    /\ xy = NoXY
    /\ mscreen = NoScreen
    /\ layout = NotCalled
    /\ ended = "running"
    /\ merr = <<>>
    /\ ticks = 0

\* line 239: Opt::from_args(); the build is fixed before the process starts
MainInit ==
    /\ mpc = "connect"
    /\ opt \in MainOpts
    /\ proto = <<>>
    /\ xdo = NoXdo
    /\ menv \in {[NoEnv EXCEPT !.build = b] : b \in Builds}
    /\ xy = NoXY
    /\ mscreen = NoScreen
    /\ layout = NotCalled
    /\ ended = "running"
    /\ merr = <<>>
    /\ ticks = 0

\* main returns Err(e): the process prints the chain and exits with status 1
MainFails(chain) ==
    /\ mpc' = "done"
    /\ ended' = "err"
    /\ merr' = chain

\* a panic, or std::process::exit, ends the process where it stands
MainStops(how) ==
    /\ mpc' = "done"
    /\ ended' = how
    /\ merr' = <<>>

MainGoes(next) ==
    /\ mpc' = next
    /\ UNCHANGED <<ended, merr>>

\* line 242-243: x11rb::connect(None).with_context(..)?
MainConnect ==
    /\ mpc = "connect"
    /\ \/ /\ proto' = Append(proto, "connect")
          /\ mscreen' \in MainScreens
          /\ MainGoes("get_window")
       \/ /\ MainFails(<<"Couldn't connect to X", "connection refused">>)
          /\ UNCHANGED <<proto, mscreen>>
    /\ UNCHANGED <<opt, xdo, menv, xy, layout, ticks>>
    /\ UNCHANGED dispVars

\* line 246: let window = get_current_window_id()?
MainGetWindow ==
    /\ mpc = "get_window"
    /\ \E x \in XdoOutcomes :
         /\ xdo' = x
         /\ LET w == GetCurrentWindowId(x)
            IN  IF w.kind = "ok" THEN MainGoes("get_geometry")
                ELSE MainFails(w.chain)
    /\ UNCHANGED <<opt, proto, menv, xy, mscreen, layout, ticks>>
    /\ UNCHANGED dispVars

\* line 249 calling line 92: conn.get_geometry(window)?.reply()?
MainGetGeometry ==
    /\ mpc = "get_geometry"
    /\ \/ /\ proto' = Append(proto, "get_geometry")
          /\ \E g \in MainGeoms : menv' = [menv EXCEPT !.geom = g]
          /\ MainGoes("rowcol")
       \/ /\ MainFails(<<"connection error">>)
          /\ UNCHANGED <<proto, menv>>
    /\ UNCHANGED <<opt, xdo, xy, mscreen, layout, ticks>>
    /\ UNCHANGED dispVars

\* the position main hands to rowcol_to_pixels: line 249, (opt.col, opt.row)
MainPosition == <<opt.col, opt.row>>

\* line 249 calling lines 95-106: the terminal sizes and the arithmetic
MainRowcol ==
    /\ mpc = "rowcol"
    /\ \/ \E grid \in MainGrids, pix \in MainSizes :
            /\ menv' = [menv EXCEPT !.grid = grid, !.pix = pix]
            /\ LET r == RowcolToPixels(menv.geom, grid, pix, MainPosition, menv.build)
               IN  IF r.kind = "ok"
                     THEN xy' = <<r.x, r.y>> /\ MainGoes("load_image")
                     ELSE xy' = xy /\ MainStops("panic")
       \/ /\ MainFails(<<"Could not get terminal size", "ioctl failed">>)
          /\ UNCHANGED <<menv, xy>>
       \/ /\ MainFails(<<"Could not get terminal size in pixels", "ioctl failed">>)
          /\ UNCHANGED <<menv, xy>>
    /\ UNCHANGED <<opt, proto, xdo, mscreen, layout, ticks>>
    /\ UNCHANGED dispVars

\* line 252: ImageReader::open(opt.image_file)?.decode()?.to_rgb8()
MainLoadImage ==
    /\ mpc = "load_image"
    /\ \/ MainGoes("new")
       \/ MainFails(<<"image decoding failed">>)
    /\ UNCHANGED <<opt, proto, xdo, menv, xy, mscreen, layout, ticks>>
    /\ UNCHANGED dispVars

\* line 255: ImageDisplay::new(&conn, screen, image, window)?  (lines 117-153)
MainNew ==
    /\ mpc = "new"
    /\ LET r == CheckVisual(mscreen.allowed_depths, mscreen.root_visual)
       IN  /\ layout' = r
           /\ CASE r.kind = "ok" ->
                     \* lines 135-146: Image::new(..)?, reencode(..)?
                     \/ MainGoes("show_at")
                     \/ MainFails(<<"InvalidValue">>)
                [] r.kind = "err" -> MainFails(<<r.why, "InvalidValue">>)
                [] r.kind = "exit" -> MainStops("exit")
                [] OTHER -> MainStops("panic")
    /\ UNCHANGED <<opt, proto, xdo, menv, xy, mscreen, ticks>>
    /\ UNCHANGED dispVars

\* line 256: display_image.show_at(&conn, screen, (x, y))
MainShowAt ==
    /\ mpc = "show_at"
    /\ pc = "idle" /\ nCalls = 0
    /\ EnterCall(xy, "sa_entry", "show_at")
    /\ UNCHANGED directRemove
    /\ MainGoes("in_show_at")
    /\ UNCHANGED <<opt, proto, xdo, menv, xy, mscreen, layout, ticks>>

\* line 256: the `?` on what show_at returned
MainShowAtReturned ==
    /\ mpc = "in_show_at"
    /\ pc \in {"idle", "panicked"}
    /\ CASE lastRes = "ok" -> MainGoes("loop")
         [] lastRes = "err" -> MainFails(<<"connection error">>)
         [] OTHER -> MainStops("panic")
    /\ UNCHANGED <<opt, proto, xdo, menv, xy, mscreen, layout, ticks>>
    /\ UNCHANGED dispVars

\* a main whose loop is left, and the process ended, after one event
MainTickThenReturn ==
    /\ mpc = "loop"
    /\ \/ /\ ticks' = IF ticks < MaxTicks THEN ticks + 1 ELSE ticks
          /\ MainStops("exit")
       \/ /\ MainFails(<<"connection error">>)
          /\ UNCHANGED ticks
    /\ UNCHANGED <<opt, proto, xdo, menv, xy, mscreen, layout>>
    /\ UNCHANGED dispVars

\* lines 259-261 calling lines 230-235: loop { tick: conn.wait_for_event()? }
\* (the count of events stops at MaxTicks; the loop itself goes on)
MainTick ==
    /\ mpc = "loop"
    /\ \/ /\ ticks' = IF ticks < MaxTicks THEN ticks + 1 ELSE ticks
          /\ MainGoes("loop")
       \/ /\ MainFails(<<"connection error">>)
          /\ UNCHANGED ticks
    /\ UNCHANGED <<opt, proto, xdo, menv, xy, mscreen, layout>>
    /\ UNCHANGED dispVars

-----------------------------------------------------------------------------
(* Spec: any sequence of show_at and remove calls on one ImageDisplay *)

Init == DispInit /\ PixIdle /\ VisIdle /\ MainIdle /\ EncIdle

Next ==
    \/ CallShowAt /\ UNCHANGED <<pixVars, visVars, mainVars, encVars>>
    \/ CallRemove /\ UNCHANGED <<pixVars, visVars, mainVars, encVars>>
    \/ ShowAtStep /\ UNCHANGED <<pixVars, visVars, mainVars, encVars>>

Spec == Init /\ [][Next]_vars

(* SpecPixels: rowcol_to_pixels at a position and at its two neighbours *)

InitPixels == DispInit /\ PixInit /\ VisIdle /\ MainIdle /\ EncIdle

NextPixels ==
    \/ ApplyAt /\ UNCHANGED <<dispVars, visVars, mainVars, encVars>>
    \/ ApplyAtNextRow /\ UNCHANGED <<dispVars, visVars, mainVars, encVars>>
    \/ ApplyAtNextCol /\ UNCHANGED <<dispVars, visVars, mainVars, encVars>>

SpecPixels == InitPixels /\ [][NextPixels]_vars

(* SpecVisual: check_visual on a drawn screen and visual id *)

InitVisual == DispInit /\ PixIdle /\ VisInit /\ MainIdle /\ EncIdle

NextVisual ==
    \/ ApplyCheckVisual /\ UNCHANGED <<dispVars, pixVars, mainVars, encVars>>

SpecVisual == InitVisual /\ [][NextVisual]_vars

(* SpecMain: the program, from its command line to its event loop *)

InitMain == DispInit /\ PixIdle /\ VisIdle /\ MainInit /\ EncIdle

NextMain ==
    \/ MainConnect /\ UNCHANGED <<pixVars, visVars, encVars>>
    \/ MainGetWindow /\ UNCHANGED <<pixVars, visVars, encVars>>
    \/ MainGetGeometry /\ UNCHANGED <<pixVars, visVars, encVars>>
    \/ MainRowcol /\ UNCHANGED <<pixVars, visVars, encVars>>
    \/ MainLoadImage /\ UNCHANGED <<pixVars, visVars, encVars>>
    \/ MainNew /\ UNCHANGED <<pixVars, visVars, encVars>>
    \/ MainShowAt /\ UNCHANGED <<pixVars, visVars, encVars>>
    \/ (mpc = "in_show_at" /\ ShowAtBody) /\ UNCHANGED <<pixVars, visVars, mainVars, encVars>>
    \/ MainShowAtReturned /\ UNCHANGED <<pixVars, visVars, encVars>>
    \/ MainTick /\ UNCHANGED <<pixVars, visVars, encVars>>

SpecMain == InitMain /\ [][NextMain]_vars

(* SpecReencode: an image re-encoded for a layout, and mapped back *)

InitReencode == DispInit /\ PixIdle /\ VisIdle /\ MainIdle /\ EncInit

NextReencode ==
    \/ ApplyReencode /\ UNCHANGED <<dispVars, pixVars, visVars, mainVars>>
    \/ ApplyMapBack /\ UNCHANGED <<dispVars, pixVars, visVars, mainVars>>

SpecReencode == InitReencode /\ [][NextReencode]_vars

-----------------------------------------------------------------------------
(* Claims about ImageDisplay, checked under Spec *)

WindowIds == {w.id : w \in windows}

Returned(op, res) == pc = "idle" /\ lastOp = op /\ lastRes = res

\* the request of the current call that failed ("none" when none did)
FailedRequest ==
    IF log # <<>> /\ ~log[Len(log)].ok THEN log[Len(log)].req ELSE "none"

\* C1: after two or more show_at calls, all calls so far having succeeded,
\* exactly one window of the entity is mapped and it is the recorded one; and
\* within a show_at call, once remove has been passed, the window recorded at
\* the call's entry is not mapped (so it is unmapped before the new window is
\* created).
C1_OneMappedWindow ==
    /\ (Returned("show_at", "ok") /\ nFailed = 0 /\ nShown >= 2)
          => (window \in WindowIds /\ mapped = {window})
    /\ (caller = "show_at" /\ prevWindow # 0 /\
        pc \in {"sa_assert", "sa_gen_gc", "sa_create_gc", "sa_gen_pixmap",
                "sa_create_pixmap", "sa_put", "sa_gen_win", "sa_create_window",
                "sa_reparent", "sa_free_pixmap", "sa_free_gc", "sa_map",
                "sa_flush", "sa_set"})
          => prevWindow \notin mapped

\* a second successful show_at on a shown entity has returned
C1_Witness ==
    /\ Returned("show_at", "ok") /\ nFailed = 0 /\ nShown >= 2
    /\ prevWindow # 0 /\ prevWindow # window
    /\ Cardinality(windows) >= 2

\* C2: whenever show_at returns, successfully or not, the graphics context and
\* the pixmap that the call created are no longer allocated.
C2_TransientsFreedAtReturn ==
    (pc = "idle" /\ lastOp = "show_at")
        => (gc_id \notin gcs /\ pixmap_id \notin pixmaps)

\* C8: when a request of show_at that precedes map_window fails, show_at
\* returns with the handle absent and with the window of that call unmapped.
PreMapRequests ==
    {"generate_id", "create_gc", "create_pixmap", "put_image", "create_window",
     "reparent_window", "free_pixmap", "free_gc"}

C8_NoWindowMappedOnEarlyFailure ==
    (Returned("show_at", "err") /\ FailedRequest \in PreMapRequests)
        => (window = 0 /\ win_id \notin mapped)

\* reparenting a created window failed, in a call on a shown entity
C8_Witness ==
    /\ Returned("show_at", "err") /\ FailedRequest = "reparent_window"
    /\ win_id \in WindowIds /\ prevWindow # 0

-----------------------------------------------------------------------------
(* Claims about rowcol_to_pixels, checked under SpecPixels *)

PerRow == penv.pix[2] \div penv.grid[2]
PerCol == penv.pix[1] \div penv.grid[1]

GridNonZero == penv.grid[1] > 0 /\ penv.grid[2] > 0
WindowCoversTerminal ==
    penv.geom[1] >= penv.pix[1] /\ penv.geom[2] >= penv.pix[2]

\* C9 as stated: for every row r and column c of the signed 16-bit range
\* rowcol_to_pixels has a result and y(r + 1) - y(r) is the per-row size,
\* x(c + 1) - x(c) the per-column size.  (Stated here for a terminal with a
\* non-empty grid in a window at least as large as the terminal's pixels.)
C9_LinearOverWholeRange ==
    (GridNonZero /\ WindowCoversTerminal)
        => (/\ (out0 # NotCalled /\ outRow # NotCalled)
                  => (/\ out0.kind = "ok" /\ outRow.kind = "ok"
                      /\ outRow.y - out0.y = PerRow)
            /\ (out0 # NotCalled /\ outCol # NotCalled)
                  => (/\ out0.kind = "ok" /\ outCol.kind = "ok"
                      /\ outCol.x - out0.x = PerCol))

\* C9 amended: when rowcol_to_pixels returns an offset at both positions and
\* the offset plus the per-cell size still fits in 16 signed bits, the
\* difference is the per-cell size, and the other coordinate is unchanged.
C9_LinearWithinRange ==
    /\ (out0.kind = "ok" /\ outRow.kind = "ok" /\ out0.y + PerRow <= MaxI16)
          => (outRow.y - out0.y = PerRow /\ outRow.x = out0.x)
    /\ (out0.kind = "ok" /\ outCol.kind = "ok" /\ out0.x + PerCol <= MaxI16)
          => (outCol.x - out0.x = PerCol /\ outCol.y = out0.y)

\* both neighbours have been computed, away from the origin, with distinct
\* non-zero per-cell sizes
C9_Witness ==
    /\ out0.kind = "ok" /\ outRow.kind = "ok" /\ outCol.kind = "ok"
    /\ ppos = <<2, 1>>
    /\ PerRow > 0 /\ PerCol > 0 /\ PerRow # PerCol
    /\ out0.y + PerRow <= MaxI16 /\ out0.x + PerCol <= MaxI16

\* C10: when the terminal's pixel size exceeds the window's on an axis,
\* rowcol_to_pixels returns an offset and the centering offset on that axis
\* (the offset at position 0) is (window - terminal pixels) / 2, negative.
C10_NegativeCentering ==
    GridNonZero
        => (/\ (out0 # NotCalled /\ penv.pix[1] > penv.geom[1])
                  => (/\ out0.kind = "ok"
                      /\ ppos[2] = 0
                           => out0.x = TruncDiv(penv.geom[1] - penv.pix[1], 2))
            /\ (out0 # NotCalled /\ penv.pix[2] > penv.geom[2])
                  => (/\ out0.kind = "ok"
                      /\ ppos[1] = 0
                           => out0.y = TruncDiv(penv.geom[2] - penv.pix[2], 2)))

-----------------------------------------------------------------------------
(* Claims about check_visual, checked under SpecVisual *)

\* the depth group that lists the visual looked for, and the visual
ListedIn == FindDepth(vscreen, vid)
ListedDepth == vscreen[ListedIn].depth
ListedVisual ==
    vscreen[ListedIn].visuals[FindVisual(vscreen[ListedIn].visuals, vid)]

Contiguous(m) == m # {} /\ \A b \in 0..31 :
                    (\E lo \in m : lo <= b) /\ (\E hi \in m : b <= hi) => b \in m

\* a true-color visual as the protocol defines one: each mask one contiguous
\* run of bits, the masks disjoint, all within the bits of the depth
ConformantTrueColor(v, depth) ==
    /\ v.class = "TrueColor"
    /\ Contiguous(v.red_mask) /\ Contiguous(v.green_mask) /\ Contiguous(v.blue_mask)
    /\ v.red_mask \cap v.green_mask = {}
    /\ v.red_mask \cap v.blue_mask = {}
    /\ v.green_mask \cap v.blue_mask = {}
    /\ (v.red_mask \cup v.green_mask \cup v.blue_mask) \subseteq 0..(depth - 1)

MaskWidths(v) ==
    <<Cardinality(v.red_mask), Cardinality(v.green_mask), Cardinality(v.blue_mask)>>

-----------------------------------------------------------------------------
(* Claims about the program as a whole, checked under SpecMain *)

Range(f) == {f[i] : i \in DOMAIN f}

\* C3: when xdotool exits with a non-zero status the program fails with an
\* error whose message contains xdotool's standard error, and it has made no
\* display-protocol call (the connection handshake included) by then.
C3_FocusFailureBeforeProtocol ==
    (xdo.spawned /\ ~xdo.success)
        => (/\ ended = "err"
            /\ xdo.stderr \in Range(merr)
            /\ proto = <<>>)

\* C4: the image window is reparented at
\*   x = (width - xpixels) / 2 + C * (xpixels / cols)
\*   y = (height - ypixels) / 2 + R * (ypixels / rows)
\* for the row R and the column C of the command line.
C4_ColumnDrivesX ==
    \A w \in windows :
        w.parent = ParentWindow
            => w.at = << TruncDiv(menv.geom[1] - menv.pix[1], 2)
                           + opt.col * (menv.pix[1] \div menv.grid[1]),
                         TruncDiv(menv.geom[2] - menv.pix[2], 2)
                           + opt.row * (menv.pix[2] \div menv.grid[2]) >>

\* the root visual as the screen lists it
RootListedIn == FindDepth(mscreen.allowed_depths, mscreen.root_visual)
RootVisual ==
    LET g == mscreen.allowed_depths[RootListedIn]
    IN  g.visuals[FindVisual(g.visuals, mscreen.root_visual)]

\* C6: when no depth group lists the visual, or the visual's class is neither
\* true color nor direct color, check_visual ends the process with exit status
\* 1 and returns no layout, and nothing has been created on the server.
C6_UnsupportedVisualExits ==
    (layout # NotCalled /\
     (RootListedIn = 0 \/ RootVisual.class \notin TrueOrDirect))
        => (/\ layout = Exited(1)
            /\ ended = "exit" /\ mpc = "done"
            /\ gcs = {} /\ pixmaps = {} /\ windows = {} /\ mapped = {}
            /\ nCalls = 0)

\* check_visual has met a root visual that is listed with another class
C6_Witness ==
    /\ layout # NotCalled
    /\ RootListedIn # 0 /\ RootVisual.class = "PseudoColor"
    /\ ended = "exit"

-----------------------------------------------------------------------------
(* Claims about the re-encoding, checked under SpecReencode *)

LayoutWidths(l) == {l.red.width, l.green.width, l.blue.width}

\* a format in which an image of that width has the bytes of the raw RGB
\* raster: three bytes per pixel, most significant first, no row padding
RawLikeFormat(fmt, width) ==
    /\ fmt.bits_per_pixel = 24 /\ fmt.byte_order = "MSBFirst"
    /\ (width * 3) % (fmt.scanline_pad \div 8) = 0

\* C5 as stated: for every target layout, mapping the re-encoded pixels back
\* gives the bytes of the raster, pixel for pixel; and when the target layout
\* is the source layout the re-encoded bytes are the bytes of the raster.
C5_RoundTripAnyLayout ==
    /\ back # NotCalled
          => (/\ Len(enc.pixels) = eimg.width * eimg.height
              /\ back.v = eimg.raw)
    /\ (enc.kind = "ok" /\ etarget = ImgLayout) => enc.bytes = eimg.raw

\* C5 amended: the round trip gives the bytes of the raster when each
\* component of the target layout is at least 8 bits wide; with the target
\* layout equal to the source layout the pixel values are unchanged, and the
\* bytes are those of the raster when the server's format is 24 bits per
\* pixel, most significant byte first, and pads no row.
C5_RoundTripWideLayout ==
    /\ (back # NotCalled /\ \A w \in LayoutWidths(etarget) : w >= 8)
          => (/\ Len(enc.pixels) = eimg.width * eimg.height
              /\ back.v = eimg.raw)
    /\ (enc.kind = "ok" /\ etarget = ImgLayout)
          => (/\ enc.pixels = SourcePixels(eimg.raw)
              /\ RawLikeFormat(efmt, eimg.width) => enc.bytes = eimg.raw)

\* two different pixels went to a layout with wider, reordered components
\* and came back
C5_Witness ==
    /\ back # NotCalled
    /\ etarget.red = Component(10, 20)
    /\ eimg.raw = <<1, 2, 3, 127, 128, 129>>
    /\ back.v = eimg.raw

-----------------------------------------------------------------------------
(* Claims about a terminal that reports an empty grid, checked under SpecMain *)

ZeroGrid == menv.grid[1] = 0 \/ menv.grid[2] = 0

\* C11: when the terminal reports 0 columns or 0 rows, rowcol_to_pixels gives
\* no offset: the process ends there with the divide-by-zero panic, and no
\* id is generated and no graphics context, pixmap or window is created.
C11_ZeroGridStops ==
    ZeroGrid =>
        /\ mpc = "done" /\ ended = "panic"
        /\ xy = NoXY
        /\ pc = "idle" /\ nCalls = 0 /\ log = <<>>
        /\ nextId = FirstId
        /\ gcs = {} /\ pixmaps = {} /\ windows = {} /\ mapped = {}

\* the terminal reported 0 columns (and 24 rows) after the geometry reply
C11_Witness ==
    /\ menv.grid = <<0, 24>> /\ menv.geom = <<800, 600>>
    /\ proto = <<"connect", "get_geometry">>
    /\ ended = "panic"

-----------------------------------------------------------------------------
(* Claims about remove and the order of requests, checked under Spec *)

\* a call of remove from outside show_at on a Hidden entity, past its assert!
RemoveOnHidden ==
    caller = "api" /\ nCalls > 0 /\ prevWindow = 0 /\ pc # "rm_assert"

\* C12: remove() on an entity whose handle is absent fails its assertion: the
\* call panics (it returns neither Ok nor Err), no unmap request is issued,
\* and the handle is still absent.
C12_RemoveHiddenPanics ==
    RemoveOnHidden =>
        /\ pc = "panicked" /\ lastOp = "remove" /\ lastRes = "panic"
        /\ log = <<>>
        /\ window = 0

\* remove() called a second time, after a show_at and a remove that succeeded
C12_Witness ==
    /\ RemoveOnHidden /\ pc = "panicked"
    /\ nShown = 1 /\ nCalls = 3 /\ windows # {} /\ mapped = {}

\* the requests of the current call other than the remove step's unmap and
\* the id allocations (which are local to the connection)
Issued ==
    SelectSeq(log, LAMBDA e : e.req \notin {"generate_id", "unmap_window"})

ShowAtOrder ==
    <<"create_gc", "create_pixmap", "put_image", "create_window",
      "reparent_window", "free_pixmap", "free_gc", "map_window", "flush">>

\* position in the log of the first entry for a request (0: none)
IndexOf(req) ==
    IF \E i \in 1..Len(log) : log[i].req = req
      THEN CHOOSE i \in 1..Len(log) :
             log[i].req = req /\ \A j \in 1..(i - 1) : log[j].req # req
      ELSE 0

\* C13: a successful show_at has issued, in this order and each once:
\* create_gc on the root with graphics exposures off, create_pixmap of the
\* image's size at the root depth, put_image at (0,0), create_window of the
\* image's size with the pixmap as background, reparent_window under the target
\* at the given position, free_pixmap, free_gc, map_window, flush.  A window is
\* mapped only once it has been reparented, and the handle is recorded only
\* after the flush has succeeded.
C13_RequestOrder ==
    /\ Returned("show_at", "ok") =>
          /\ [i \in 1..Len(Issued) |-> Issued[i].req] = ShowAtOrder
          /\ \A i \in 1..Len(Issued) : Issued[i].ok
          /\ Cardinality({gc_id, pixmap_id, win_id, 0, Root, ParentWindow}) = 6
          /\ Issued[1].args = [cid |-> gc_id, drawable |-> Root,
                               graphics_exposures |-> 0]
          /\ Issued[2].args = [depth |-> "root_depth", pid |-> pixmap_id,
                               drawable |-> Root, width |-> "image.width",
                               height |-> "image.height"]
          /\ Issued[3].args = [drawable |-> pixmap_id, gc |-> gc_id,
                               dst |-> <<0, 0>>]
          /\ Issued[4].args.wid = win_id
          /\ Issued[4].args.background_pixmap = pixmap_id
          /\ Issued[4].args.depth = "root_depth"
          /\ Issued[4].args.width = "image.width"
          /\ Issued[4].args.height = "image.height"
          /\ Issued[5].args = [window |-> win_id, parent |-> ParentWindow,
                               at |-> arg]
          /\ Issued[6].args = [pixmap |-> pixmap_id]
          /\ Issued[7].args = [gc |-> gc_id]
          /\ Issued[8].args = [window |-> win_id]
    /\ \A w \in windows : w.id \in mapped => w.parent = ParentWindow
    /\ IndexOf("map_window") # 0 =>
          /\ IndexOf("reparent_window") # 0
          /\ IndexOf("reparent_window") < IndexOf("map_window")
          /\ log[IndexOf("reparent_window")].ok
    /\ (window # 0 /\ window # prevWindow) =>
          /\ window = win_id
          /\ log # <<>> /\ log[Len(log)].req = "flush" /\ log[Len(log)].ok

\* a show_at on a shown entity has succeeded, placing the window at (10, 60)
C13_Witness ==
    /\ Returned("show_at", "ok") /\ prevWindow # 0 /\ arg = <<10, 60>>
    /\ Len(log) = 13 /\ Len(Issued) = 9
    /\ window = win_id /\ mapped = {win_id}

\* C14: remove() in the Shown state issues one unmap request, for the recorded
\* window, and clears the handle; no window is ever destroyed; and between
\* calls, after n show_at calls have succeeded, n windows are allocated and at
\* most one of them is mapped.
C14_WindowsStayAllocated ==
    /\ Returned("remove", "ok") =>
          /\ Len(log) = 1 /\ log[1].req = "unmap_window" /\ log[1].ok
          /\ log[1].args.window = prevWindow /\ prevWindow # 0
          /\ window = 0 /\ prevWindow \in WindowIds
    /\ pc = "idle" =>
          /\ Cardinality(WindowIds) = nShown
          /\ Cardinality(mapped) <= 1

-----------------------------------------------------------------------------
(* Claims about the event loop of main, checked under SpecMain *)

Unmapped == \E i \in 1..Len(log) : log[i].req = "unmap_window"

\* C15: once show_at has succeeded, main is in its loop: there the process is
\* running, the shown window is the one mapped window and no unmap has been
\* issued; a step of the loop either receives an event and stays in the loop,
\* changing nothing of the display, or fails to receive one, and that ends the
\* process with the error; and a process that ended after showing the window
\* ended with an error.
C15_LoopKeepsWindow ==
    /\ [](mpc = "loop" =>
            /\ ended = "running" /\ pc = "idle" /\ lastRes = "ok"
            /\ window # 0 /\ mapped = {window} /\ ~Unmapped)
    /\ [][mpc = "loop" =>
            \/ /\ mpc' = "loop" /\ ended' = "running" /\ ticks' > ticks
               /\ UNCHANGED dispVars
            \/ /\ mpc' = "done" /\ ended' = "err" /\ merr' # <<>>
               /\ UNCHANGED <<dispVars, ticks>>]_vars
    /\ [](ended # "running" /\ window # 0 => ended = "err" /\ ~Unmapped)

\* main has received MaxTicks events and is still in its loop
C15_Witness ==
    /\ mpc = "loop" /\ ticks = MaxTicks /\ ended = "running"
    /\ window # 0 /\ mapped = {window}

-----------------------------------------------------------------------------
(* Claims about failing requests of show_at, checked under Spec *)

\* C16: within one show_at call no request is issued twice (the id
\* allocations apart, of which there are three), and a request that failed is
\* the last one of the call: show_at has returned, with an error.
C16_FailFast ==
    caller = "show_at" =>
        /\ \A i, j \in 1..Len(log) :
              (i # j /\ log[i].req = log[j].req) => log[i].req = "generate_id"
        /\ Cardinality({i \in 1..Len(log) : log[i].req = "generate_id"}) <= 3
        /\ \A i \in 1..Len(log) :
              ~log[i].ok => /\ i = Len(log)
                            /\ Returned("show_at", "err")

\* painting the pixmap failed, in a show_at on a shown entity
C16_Witness ==
    /\ Returned("show_at", "err") /\ FailedRequest = "put_image"
    /\ prevWindow # 0 /\ Len(log) = 6
    /\ pixmap_id \in pixmaps /\ gc_id \in gcs /\ win_id = 0

\* C17: whenever show_at or remove has returned, with Ok or with Err, the
\* handle is present exactly when one window of the entity is mapped, and that
\* window is the recorded one; with the handle absent no window is mapped.
C17_HandleIffMapped ==
    (pc = "idle" /\ nCalls > 0) =>
        /\ (window # 0) <=> (Cardinality(mapped) = 1)
        /\ window # 0 => mapped = {window}
        /\ window = 0 => mapped = {}

\* the unmap request of the remove step of show_at has just failed
UnmapFailedInShowAt ==
    Returned("show_at", "err") /\ FailedRequest = "unmap_window"

\* C18: when the unmap request of the remove step of show_at fails, that step
\* changes neither the handle nor anything the server holds, and show_at has
\* returned the error having issued no other request and allocated no id: the
\* handle records the window it recorded at entry, which is still mapped.
C18_UnmapFailureKeepsState ==
    /\ [](UnmapFailedInShowAt =>
            /\ window = prevWindow /\ window # 0 /\ window \in mapped
            /\ Len(log) = 1
            /\ gc_id = 0 /\ pixmap_id = 0 /\ win_id = 0)
    /\ [][(pc = "rm_unmap" /\ caller = "show_at" /\ ~log'[Len(log')].ok) =>
            /\ UNCHANGED <<window, gcs, pixmaps, painted, windows, mapped, nextId>>
            /\ pc' = "idle" /\ lastOp' = "show_at" /\ lastRes' = "err"]_vars

\* the failed call was made on an entity shown by a second show_at
C18_Witness ==
    /\ UnmapFailedInShowAt /\ nCalls = 3 /\ nShown = 2
    /\ window = prevWindow /\ mapped = {window} /\ Cardinality(windows) = 2

\* C19: as long as remove is called by show_at only, no assertion fails,
\* whatever calls of show_at returned an error and at whatever request.
C19_AssertionsHold ==
    ~directRemove => (pc # "panicked" /\ lastRes # "panic")

\* a show_at succeeded on an entity after an earlier show_at had failed, with
\* remove never called from outside
C19_Witness ==
    /\ ~directRemove /\ nCalls = 3 /\ nFailed >= 1
    /\ Returned("show_at", "ok") /\ prevWindow # 0

=============================================================================
